---- MODULE Spec2Model ----
(***************************************************************************)
(* The retrieval subsystem of papl-converter: the lexical search engine    *)
(* of src/lib/search_engine.py (PAPLSearchEngine).                         *)
(*                                                                         *)
(* Text is a sequence of one-character strings, so that lower-casing, the  *)
(* regular-expression substitution, whitespace splitting and substring     *)
(* tests are computed character by character as the Python code does.      *)
(* Scores are counted in quarter points (1.0 = 4), which keeps every       *)
(* weight (3.0, 2.0, 1.5, 1.0) and the 1.5 boost exact in the integers.    *)
(***************************************************************************)
EXTENDS Integers, Sequences, FiniteSets, TLC

VARIABLES json_data, yaml_data, markdown_data,
          pricing_index, rule_index, guidance_index,
          hash_seed, phase, call,
          documents, conversation_history, assistant, reply,
          refinement, threads

vars == <<json_data, yaml_data, markdown_data, pricing_index, rule_index,
          guidance_index, hash_seed, phase, call,
          documents, conversation_history, assistant, reply,
          refinement, threads>>

---------------------------------------------------------------------------
(* Characters and strings (str.lower, the "in" substring test, re, split)  *)

UpperLetters == <<"A","B","C","D","E","F","G","H","I","J","K","L","M","N","O","P","Q","R","S","T","U","V","W","X","Y","Z">>

LowerLetters == <<"a","b","c","d","e","f","g","h","i","j","k","l","m","n","o","p","q","r","s","t","u","v","w","x","y","z">>

DigitChars == <<"0","1","2","3","4","5","6","7","8","9">>

Range(s) == {s[i] : i \in 1..Len(s)}

\* \s of the regular expression and the separators of str.split()
Whitespace == {" ", "\n", "\t"}

\* \w of the regular expression: letters, digits and the underscore
WordChars == Range(UpperLetters) \cup Range(LowerLetters) \cup Range(DigitChars) \cup {"_"}

\* the code points the model orders strings by
Alphabet == <<"\n","\t"," ","!","#","$","'","(",")",",","-",".","/",":","?","[","]">> \o DigitChars \o UpperLetters \o <<"_">> \o LowerLetters \o <<"{","}">>

\* the list [f(1), ..., f(n)], computed once
List(f, n) == SubSeq(f, 1, n)

lower_char(c) ==
    IF c \in Range(UpperLetters)
    THEN LowerLetters[CHOOSE i \in 1..Len(UpperLetters) : UpperLetters[i] = c]
    ELSE c

\* str.lower()
lower(text) == List([i \in 1..Len(text) |-> lower_char(text[i])], Len(text))

\* Python's  pat in text
Contains(text, pat) ==
    \E i \in 0..(Len(text) - Len(pat)) : \A j \in 1..Len(pat) : text[i + j] = pat[j]

\* any(word in text for word in words)
any_in(words, text) == \E k \in 1..Len(words) : Contains(text, words[k])

Min(a, b) == IF a <= b THEN a ELSE b

Max(a, b) == IF a >= b THEN a ELSE b

\* Python's  s[:n]
Prefix(s, n) ==
    IF n >= 0 THEN SubSeq(s, 1, Min(n, Len(s))) ELSE SubSeq(s, 1, Max(0, Len(s) + n))

RECURSIVE Concat(_)
Concat(seqs) == IF seqs = << >> THEN << >> ELSE Head(seqs) \o Concat(Tail(seqs))

\* re.sub(r'[^\w\s\-/]', ' ', text)
KeptChars == WordChars \cup Whitespace \cup {"-", "/"}

strip_special(text) ==
    List([i \in 1..Len(text) |-> IF text[i] \in KeptChars THEN text[i] ELSE " "], Len(text))

\* the length of the run of characters of `chars` that starts at text[i]
RECURSIVE run_length(_, _, _)
run_length(text, i, chars) ==
    IF i <= Len(text) /\ text[i] \in chars THEN 1 + run_length(text, i + 1, chars) ELSE 0

\* the length of the run of non-whitespace characters that starts at text[i]
RECURSIVE word_length(_, _)
word_length(text, i) ==
    IF i <= Len(text) /\ text[i] \notin Whitespace THEN 1 + word_length(text, i + 1) ELSE 0

\* str.split(): the maximal runs of non-whitespace characters, in order
RECURSIVE split_from(_, _)
split_from(text, i) ==
    LET start == i + run_length(text, i, Whitespace)
        n == word_length(text, start)
    IN  IF start > Len(text) THEN << >>
        ELSE <<SubSeq(text, start, start + n - 1)>> \o split_from(text, start + n)

split(text) == split_from(text, 1)

\* str.strip() leaves something
has_non_space(text) == \E i \in 1..Len(text) : text[i] \notin Whitespace

---------------------------------------------------------------------------
(* Tokenizer                                                               *)

stop_words == {<<"t","h","e">>, <<"a">>, <<"a","n">>, <<"a","n","d">>, <<"o","r">>, <<"b","u","t">>, <<"i","n">>, <<"o","n">>, <<"a","t">>, <<"t","o">>, <<"f","o","r">>}

extract_terms(text) ==
    SelectSeq(split(strip_special(lower(text))),
              LAMBDA w : w \notin stop_words /\ Len(w) > 2)

---------------------------------------------------------------------------
(* Intent classifier                                                       *)

\* lines 156-174 with the first two branches in the opposite order
intent_kind_claiming_first(query_lower) ==
    IF any_in(<<<<"c","a","n"," ","i"," ","c","l","a","i","m">>, <<"h","o","w"," ","t","o"," ","c","l","a","i","m">>, <<"c","l","a","i","m","i","n","g">>, <<"r","u","l","e","s"," ","f","o","r">>>>, query_lower)
    THEN <<"claiming", "rules">>
    ELSE IF any_in(<<<<"p","r","i","c","e">>, <<"c","o","s","t">>, <<"h","o","w"," ","m","u","c","h">>, <<"$">>>>, query_lower)
    THEN <<"pricing", "price">>
    ELSE IF any_in(<<<<"w","h","a","t"," ","i","s">>, <<"w","h","a","t"," ","a","r","e">>, <<"d","e","f","i","n","e">>, <<"e","x","p","l","a","i","n">>>>, query_lower)
    THEN <<"definition", "guidance">>
    ELSE IF any_in(<<<<"c","a","n"," ","i">>, <<"a","m"," ","i"," ","e","l","i","g","i","b","l","e">>, <<"a","v","a","i","l","a","b","l","e">>>>, query_lower)
    THEN <<"both", "eligibility">>
    ELSE <<"general", "None">>

\* the if/elif chain that sets intent['type'] and intent['focus']
intent_kind(query_lower) ==
    IF any_in(<<<<"p","r","i","c","e">>, <<"c","o","s","t">>, <<"h","o","w"," ","m","u","c","h">>, <<"$">>>>, query_lower)
    THEN <<"pricing", "price">>
    ELSE IF any_in(<<<<"c","a","n"," ","i"," ","c","l","a","i","m">>, <<"h","o","w"," ","t","o"," ","c","l","a","i","m">>, <<"c","l","a","i","m","i","n","g">>, <<"r","u","l","e","s"," ","f","o","r">>>>, query_lower)
    THEN <<"claiming", "rules">>
    ELSE IF any_in(<<<<"w","h","a","t"," ","i","s">>, <<"w","h","a","t"," ","a","r","e">>, <<"d","e","f","i","n","e">>, <<"e","x","p","l","a","i","n">>>>, query_lower)
    THEN <<"definition", "guidance">>
    ELSE IF any_in(<<<<"c","a","n"," ","i">>, <<"a","m"," ","i"," ","e","l","i","g","i","b","l","e">>, <<"a","v","a","i","l","a","b","l","e">>>>, query_lower)
    THEN <<"both", "eligibility">>
    ELSE <<"general", "None">>

\* modifiers looked for only once a type rule has matched
intent_modifiers_typed_only(query_lower) ==
    IF intent_kind(query_lower)[1] = "general" THEN << >>
    ELSE (IF Contains(query_lower, <<"i","n"," ","n","s","w">>) \/ Contains(query_lower, <<"i","n"," ","n","e","w"," ","s","o","u","t","h"," ","w","a","l","e","s">>)
          THEN << <<"state", "NSW">> >>
          ELSE IF Contains(query_lower, <<"i","n"," ","v","i","c">>) \/ Contains(query_lower, <<"i","n"," ","v","i","c","t","o","r","i","a">>)
          THEN << <<"state", "VIC">> >>
          ELSE << >>)
         \o (IF Contains(query_lower, <<"o","l","d"," ","f","r","a","m","e","w","o","r","k">>) THEN << <<"framework", "old">> >>
             ELSE IF Contains(query_lower, <<"n","e","w"," ","f","r","a","m","e","w","o","r","k">>) THEN << <<"framework", "new">> >>
             ELSE << >>)

\* the two if/elif chains that append to intent['modifiers']
intent_modifiers(query_lower) ==
    LET state == IF Contains(query_lower, <<"i","n"," ","n","s","w">>) \/ Contains(query_lower, <<"i","n"," ","n","e","w"," ","s","o","u","t","h"," ","w","a","l","e","s">>)
                 THEN << <<"state", "NSW">> >>
                 ELSE IF Contains(query_lower, <<"i","n"," ","v","i","c">>) \/ Contains(query_lower, <<"i","n"," ","v","i","c","t","o","r","i","a">>)
                 THEN << <<"state", "VIC">> >>
                 ELSE << >>
        framework == IF Contains(query_lower, <<"o","l","d"," ","f","r","a","m","e","w","o","r","k">>)
                     THEN << <<"framework", "old">> >>
                     ELSE IF Contains(query_lower, <<"n","e","w"," ","f","r","a","m","e","w","o","r","k">>)
                     THEN << <<"framework", "new">> >>
                     ELSE << >>
    IN  state \o framework

understand_query_intent(query) ==
    LET query_lower == lower(query)
        kind == intent_kind(query_lower)
    IN  [type |-> kind[1], focus |-> kind[2], modifiers |-> intent_modifiers(query_lower)]

---------------------------------------------------------------------------
(* Records of the three sources                                            *)
(*   json_data      a mapping that may hold 'support_items', a list of     *)
(*                  support items (mappings)                               *)
(*   yaml_data      a mapping that may hold 'claiming_rules', an ordered   *)
(*                  mapping rule name -> rule, here a sequence of          *)
(*                  [name, rule] entries with distinct names               *)
(*   markdown_data  one text                                               *)
(* A rule is an ordered mapping of strings, a sequence of <<key, value>>.  *)
(* A price_limits entry is [mapping |-> TRUE, price |-> p] for the mapping *)
(* {'price': p, 'currency': 'AUD'} and [mapping |-> FALSE, price |-> p]    *)
(* for a bare number p in its place.                                       *)

NoMapping == [k \in {} |-> 0]

\* dict.get(key, default)
get(d, key, default) == IF key \in DOMAIN d THEN d[key] ELSE default

\* the order in which Python iterates a set of strings: fixed by the
\* process's string-hash seed, not by the order of insertion
code_point(c) == CHOOSE i \in 1..Len(Alphabet) : Alphabet[i] = c

RECURSIVE str_less(_, _)
str_less(a, b) ==
    IF a = << >> THEN b # << >>
    ELSE IF b = << >> THEN FALSE
    ELSE IF Head(a) = Head(b) THEN str_less(Tail(a), Tail(b))
    ELSE code_point(Head(a)) < code_point(Head(b))

RECURSIVE str_set_iteration(_, _)
str_set_iteration(S, seed) ==
    IF S = {} THEN << >>
    ELSE LET first == CHOOSE x \in S : \A y \in S \ {x} :
                          IF seed = 0 THEN str_less(x, y) ELSE str_less(y, x)
         IN  <<first>> \o str_set_iteration(S \ {first}, seed)

\* the order in which Python iterates a set of small non-negative integers
RECURSIVE int_set_iteration(_)
int_set_iteration(S) ==
    IF S = {} THEN << >>
    ELSE LET first == CHOOSE x \in S : \A y \in S : x <= y
         IN  <<first>> \o int_set_iteration(S \ {first})

\* str(rule) of a mapping of strings: {'k': 'v', 'k2': 'v2'}
RECURSIVE str_entries(_)
str_entries(rule) ==
    IF rule = << >> THEN << >>
    ELSE <<"'">> \o Head(rule)[1] \o <<"'",":"," ","'">> \o Head(rule)[2] \o <<"'">>
         \o (IF Len(rule) > 1 THEN <<","," ">> ELSE << >>) \o str_entries(Tail(rule))

str(rule) == <<"{">> \o str_entries(rule) \o <<"}">>

\* the length of the match of  \n#{1,6}\s+  at text[i], 0 when there is none
heading_match(text, i) ==
    IF text[i] # "\n" THEN 0
    ELSE LET hashes == run_length(text, i + 1, {"#"})
             spaces == run_length(text, i + 1 + hashes, Whitespace)
         IN  IF hashes >= 1 /\ hashes <= 6 /\ spaces >= 1 THEN 1 + hashes + spaces ELSE 0

\* re.split(r'\n#{1,6}\s+', markdown): the text between the matches, with
\* start the first character of the current section and i the scan position
RECURSIVE split_sections_from(_, _, _)
split_sections_from(text, start, i) ==
    LET matches == {k \in i..Len(text) : heading_match(text, k) > 0}
    IN  IF matches = {} THEN <<SubSeq(text, start, Len(text))>>
        ELSE LET k == CHOOSE first \in matches : \A other \in matches : first <= other
                 m == heading_match(text, k)
             IN  <<SubSeq(text, start, k - 1)>> \o split_sections_from(text, k + m, k + m)

split_sections(markdown) == split_sections_from(markdown, 1, 1)

---------------------------------------------------------------------------
(* Inverted indices: a Python dict term -> list of keys, here the sequence *)
(* of its [term, keys] entries in order of first insertion                 *)

index_has(index, term) == \E i \in 1..Len(index) : index[i].term = term

index_get(index, term) == index[CHOOSE i \in 1..Len(index) : index[i].term = term].keys

\* if term not in index: index[term] = []; index[term].append(key)
index_append(index, term, key) ==
    IF index_has(index, term)
    THEN List([i \in 1..Len(index) |->
                 IF index[i].term = term THEN [index[i] EXCEPT !.keys = Append(@, key)]
                 ELSE index[i]], Len(index))
    ELSE Append(index, [term |-> term, keys |-> <<key>>])

\* for term in terms: ... append(key)
RECURSIVE index_terms(_, _, _)
index_terms(index, terms, key) ==
    IF terms = << >> THEN index
    ELSE index_terms(index_append(index, Head(terms), key), Tail(terms), key)

indexable_text(item) ==
    get(item, "support_item_name", << >>) \o <<" ">> \o get(item, "support_category", << >>)
        \o <<" ">> \o get(item, "registration_group", << >>)

index_support_item(index, item) ==
    index_terms(index, extract_terms(indexable_text(item)), get(item, "support_item_number", << >>))

RECURSIVE index_support_items(_, _)
index_support_items(index, items) ==
    IF items = << >> THEN index
    ELSE index_support_items(index_support_item(index, Head(items)), Tail(items))

RECURSIVE index_claiming_rules(_, _)
index_claiming_rules(index, rules) ==
    IF rules = << >> THEN index
    ELSE index_claiming_rules(
             index_terms(index, extract_terms(Head(rules).name), Head(rules).name), Tail(rules))

GuidancePrefixLen == 200

\* an index of the sections by the terms of their whole text
RECURSIVE index_markdown_whole_from(_, _, _)
index_markdown_whole_from(index, sections, i) ==
    IF i >= Len(sections) THEN index
    ELSE index_markdown_whole_from(
             IF has_non_space(sections[i + 1])
             THEN index_terms(index, extract_terms(sections[i + 1]), i)
             ELSE index,
             sections, i + 1)

\* enumerate(sections) from section number i on; section numbers start at 0
RECURSIVE index_markdown_from(_, _, _)
index_markdown_from(index, sections, i) ==
    IF i >= Len(sections) THEN index
    ELSE index_markdown_from(
             IF has_non_space(sections[i + 1])
             THEN index_terms(index, extract_terms(Prefix(sections[i + 1], GuidancePrefixLen)), i)
             ELSE index,
             sections, i + 1)

index_markdown_sections(markdown) == index_markdown_from(<< >>, split_sections(markdown), 0)

build_pricing_index(json) ==
    IF "support_items" \in DOMAIN json THEN index_support_items(<< >>, json["support_items"]) ELSE << >>

build_rule_index(yaml) ==
    IF "claiming_rules" \in DOMAIN yaml THEN index_claiming_rules(<< >>, yaml["claiming_rules"]) ELSE << >>

---------------------------------------------------------------------------
(* Scoring, in quarter points                                              *)

NameWeight == 12

CategoryWeight == 8

StateWeight == 4

RuleWeight == 6

GuidanceWeight == 4

\* score *= 1.5
boost(score) == (score * 3) \div 2

\* the state modifiers of the intent whose state has an entry in price_limits
states_priced(intent, price_limits) ==
    {i \in 1..Len(intent.modifiers) :
        intent.modifiers[i][1] = "state" /\ intent.modifiers[i][2] \in DOMAIN price_limits}

\* the positions of the query terms that are substrings of text
terms_in(query_terms, text) == {i \in 1..Len(query_terms) : Contains(text, query_terms[i])}

\* the name weight given once, however many name terms match
score_support_item_flat_name(item, query_terms, intent) ==
    LET name_terms == extract_terms(lower(get(item, "support_item_name", << >>)))
        matching_terms == Range(query_terms) \cap Range(name_terms)
        category == lower(get(item, "support_category", << >>))
        price_limits == get(item, "price_limits", NoMapping)
    IN  (IF matching_terms # {} THEN NameWeight ELSE 0)
        + (IF any_in(query_terms, category) THEN CategoryWeight ELSE 0)
        + Cardinality(states_priced(intent, price_limits)) * StateWeight

\* the state weight given for every modifier, of whatever kind
score_support_item_any_modifier(item, query_terms, intent) ==
    LET name_terms == extract_terms(lower(get(item, "support_item_name", << >>)))
        matching_terms == Range(query_terms) \cap Range(name_terms)
        category == lower(get(item, "support_category", << >>))
    IN  Cardinality(matching_terms) * NameWeight
        + (IF any_in(query_terms, category) THEN CategoryWeight ELSE 0)
        + Len(intent.modifiers) * StateWeight

score_support_item(item, query_terms, intent) ==
    LET name_terms == extract_terms(lower(get(item, "support_item_name", << >>)))
        matching_terms == Range(query_terms) \cap Range(name_terms)
        category == lower(get(item, "support_category", << >>))
        price_limits == get(item, "price_limits", NoMapping)
    IN  Cardinality(matching_terms) * NameWeight
        + (IF any_in(query_terms, category) THEN CategoryWeight ELSE 0)
        + Cardinality(states_priced(intent, price_limits)) * StateWeight

\* the boost applied whatever the focus
score_rule_always_boosted(rule, query_terms, intent) ==
    boost(Cardinality(terms_in(query_terms, lower(str(rule)))) * RuleWeight)

score_rule(rule, query_terms, intent) ==
    LET rule_str == lower(str(rule))
        score == Cardinality(terms_in(query_terms, rule_str)) * RuleWeight
    IN  IF intent.focus = "rules" THEN boost(score) ELSE score

score_guidance(section, query_terms, intent) ==
    LET section_lower == lower(section)
        score == Cardinality(terms_in(query_terms, section_lower)) * GuidanceWeight
    IN  IF intent.focus = "guidance" THEN boost(score) ELSE score

\* _format_pricing_result fails on price_data.get when the entry of a
\* requested state is not a mapping
format_pricing_result_raises(item, intent) ==
    LET price_limits == get(item, "price_limits", NoMapping)
    IN  \E i \in 1..Len(intent.modifiers) :
            /\ intent.modifiers[i][1] = "state"
            /\ intent.modifiers[i][2] \in DOMAIN price_limits
            /\ ~price_limits[intent.modifiers[i][2]].mapping

---------------------------------------------------------------------------
(* The three sub-searches. Each yields [raised, results]; the results are  *)
(* in the order the loop over the candidate set appends them.              *)

\* the first support item with this number, as a sequence of at most one
get_support_item(item_number) ==
    IF "support_items" \in DOMAIN json_data
    THEN LET items == json_data["support_items"]
             at == {i \in 1..Len(items) :
                        /\ "support_item_number" \in DOMAIN items[i]
                        /\ items[i]["support_item_number"] = item_number}
         IN  IF at = {} THEN << >> ELSE <<items[CHOOSE i \in at : \A j \in at : i <= j]>>
    ELSE << >>

\* a query without terms taken as "no filter": every indexed key is a candidate
candidates_all_without_terms(index, query_terms) ==
    IF query_terms = << >>
    THEN UNION {Range(index[i].keys) : i \in 1..Len(index)}
    ELSE UNION {Range(index_get(index, t)) : t \in {u \in Range(query_terms) : index_has(index, u)}}

\* the union of the index entries of the query terms
candidates(index, query_terms) ==
    UNION {Range(index_get(index, t)) : t \in {u \in Range(query_terms) : index_has(index, u)}}

search_pricing(query, intent) ==
    LET query_terms == extract_terms(query)
        matching_items == str_set_iteration(candidates(pricing_index, query_terms), hash_seed)
        found == SelectSeq(matching_items, LAMBDA n : get_support_item(n) # << >>)
        result(n) == LET item == get_support_item(n)[1]
                     IN  [source_type |-> "pricing",
                          relevance_score |-> score_support_item(item, query_terms, intent),
                          item_number |-> n,
                          item |-> item]
    IN  [raised |-> \E i \in 1..Len(found) :
                        format_pricing_result_raises(get_support_item(found[i])[1], intent),
         results |-> List([i \in 1..Len(found) |-> result(found[i])], Len(found))]

\* yaml_data['claiming_rules'].get(rule_name), as a sequence of at most one
get_rule(rule_name) ==
    LET rules == yaml_data["claiming_rules"]
        at == {i \in 1..Len(rules) : rules[i].name = rule_name}
    IN  IF at = {} THEN << >> ELSE <<rules[CHOOSE i \in at : TRUE].rule>>

search_rules(query, intent) ==
    LET query_terms == extract_terms(query)
        matching_rules == str_set_iteration(candidates(rule_index, query_terms), hash_seed)
        found == IF "claiming_rules" \in DOMAIN yaml_data
                 THEN SelectSeq(matching_rules,
                                LAMBDA n : get_rule(n) # << >> /\ get_rule(n)[1] # << >>)
                 ELSE << >>
        result(n) == [source_type |-> "rule",
                      relevance_score |-> score_rule(get_rule(n)[1], query_terms, intent),
                      rule_name |-> n]
    IN  [raised |-> FALSE,
         results |-> List([i \in 1..Len(found) |-> result(found[i])], Len(found))]

search_guidance(query, intent) ==
    LET query_terms == extract_terms(query)
        matching_sections == int_set_iteration(candidates(guidance_index, query_terms))
        sections == split_sections(markdown_data)
        found == SelectSeq(matching_sections, LAMBDA i : i < Len(sections))
        result(n) == [source_type |-> "guidance",
                      relevance_score |-> score_guidance(sections[n + 1], query_terms, intent),
                      section_index |-> n]
    IN  [raised |-> FALSE,
         results |-> List([i \in 1..Len(found) |-> result(found[i])], Len(found))]

---------------------------------------------------------------------------
(* search                                                                  *)

\* dispatch as the docstring of search has it for "can I claim X": rules + pricing
dispatch_pricing_for_both(type) ==
    (IF type \in {"pricing", "both"} THEN <<"pricing">> ELSE << >>)
    \o (IF type \in {"rules", "claiming", "both"} THEN <<"rule">> ELSE << >>)
    \o (IF type \in {"guidance", "definition"} THEN <<"guidance">> ELSE << >>)
    \o (IF type = "general" THEN <<"pricing", "rule", "guidance">> ELSE << >>)

\* the sub-searches the four if statements of search call, in order
dispatch(type) ==
    (IF type = "pricing" THEN <<"pricing">> ELSE << >>)
    \o (IF type \in {"rules", "claiming", "both"} THEN <<"rule">> ELSE << >>)
    \o (IF type \in {"guidance", "definition", "both"} THEN <<"guidance">> ELSE << >>)
    \o (IF type = "general" THEN <<"pricing", "rule", "guidance">> ELSE << >>)

sub_search(source, query, intent) ==
    CASE source = "pricing" -> search_pricing(query, intent)
      [] source = "rule" -> search_rules(query, intent)
      [] source = "guidance" -> search_guidance(query, intent)

\* a sort without reverse=True: lowest score first
insert_ascending(sorted, r) ==
    LET k == Cardinality({i \in 1..Len(sorted) : sorted[i].relevance_score <= r.relevance_score})
    IN  SubSeq(sorted, 1, k) \o <<r>> \o SubSeq(sorted, k + 1, Len(sorted))

\* an ascending sort followed by reverse(): equal scores end in reverse order
insert_before_equals(sorted, r) ==
    LET k == Cardinality({i \in 1..Len(sorted) : sorted[i].relevance_score > r.relevance_score})
    IN  SubSeq(sorted, 1, k) \o <<r>> \o SubSeq(sorted, k + 1, Len(sorted))

\* where list.sort(key=relevance_score, reverse=True) puts one more result:
\* after every result that scores at least as much (the sort is stable)
insert_by_relevance(sorted, r) ==
    LET k == Cardinality({i \in 1..Len(sorted) : sorted[i].relevance_score >= r.relevance_score})
    IN  SubSeq(sorted, 1, k) \o <<r>> \o SubSeq(sorted, k + 1, Len(sorted))

RECURSIVE sort_first(_, _)
sort_first(results, n) ==
    IF n = 0 THEN << >> ELSE insert_by_relevance(sort_first(results, n - 1), results[n])

sort_by_relevance(results) == sort_first(results, Len(results))

\* search up to and including the sort. invoked: the sub-searches that ran,
\* in order; emitted: the merged list before the sort; an exception of a
\* sub-search ends the call with nothing returned.
search_ranked(query) ==
    LET intent == understand_query_intent(query)
        subs == dispatch(intent.type)
        outs == List([i \in 1..Len(subs) |-> sub_search(subs[i], query, intent)], Len(subs))
        failing == {i \in 1..Len(subs) : outs[i].raised}
        ran == IF failing = {} THEN Len(subs) ELSE CHOOSE i \in failing : \A j \in failing : i <= j
        emitted == IF failing = {} THEN Concat(List([i \in 1..ran |-> outs[i].results], ran))
                   ELSE << >>
    IN  [query |-> query,
         intent |-> intent,
         invoked |-> SubSeq(subs, 1, ran),
         emitted |-> emitted,
         outcome |-> IF failing = {} THEN "returned" ELSE "raised",
         results |-> sort_by_relevance(emitted)]

\* return results[:max_results]
truncate(ranked, max_results) ==
    [query |-> ranked.query,
     max_results |-> max_results,
     intent |-> ranked.intent,
     invoked |-> ranked.invoked,
     emitted |-> ranked.emitted,
     outcome |-> ranked.outcome,
     results |-> Prefix(ranked.results, max_results)]

\* one call of search
search(query, max_results) == truncate(search_ranked(query), max_results)

---------------------------------------------------------------------------
(* The data an engine is built from, and the queries put to it             *)

MaxItems == 2

MaxResultsBound == 3

Mapping(p) == [mapping |-> TRUE, price |-> p]

ItemPool ==
    { [support_item_number |-> <<"0","1">>, support_item_name |-> <<"T","h","e","r","a","p","y">>,
       support_category |-> <<"C","a","r","e">>, registration_group |-> << >>,
       price_limits |-> [s \in {"NSW", "VIC"} |-> Mapping(19399)]],
      [support_item_number |-> <<"0","2">>, support_item_name |-> <<"T","h","e","r","a","p","y"," ","T","r","a","v","e","l">>,
       support_category |-> <<"C","a","r","e">>, registration_group |-> << >>,
       price_limits |-> [s \in {"NSW", "VIC"} |-> Mapping(19399)]],
      [support_item_number |-> <<"0","1">>, support_item_name |-> <<"T","r","a","v","e","l">>,
       support_category |-> <<"T","r","a","n","s","p","o","r","t">>, registration_group |-> << >>,
       price_limits |-> [s \in {"VIC"} |-> Mapping(100)]],
      [support_item_number |-> <<"0","3">>, support_item_name |-> <<"H","o","m","e">>,
       support_category |-> <<"H","o","m","e","c","a","r","e">>, registration_group |-> <<"T","h","e","r","a","p","y">>,
       price_limits |-> [s \in {"NSW"} |-> [mapping |-> FALSE, price |-> 5000]]] }

\* the catalogues: up to MaxItems rows of the pool, no row twice
SupportItemLists ==
    UNION {{items \in [1..n -> ItemPool] : \A i, j \in 1..n : i # j => items[i] # items[j]}
               : n \in 0..MaxItems}

JsonPool == {NoMapping} \cup {[support_items |-> items] : items \in SupportItemLists}

YamlPool ==
    { NoMapping,
      [claiming_rules |->
         << [name |-> <<"c","l","a","i","m","i","n","g">>,
             rule |-> << <<<<"s","e","c","t","i","o","n","_","t","i","t","l","e">>, <<"C","l","a","i","m","i","n","g">>>>, <<<<"a","p","p","l","i","e","s","_","t","o">>, <<"t","r","a","v","e","l">>>> >>],
            [name |-> <<"c","l","a","i","m","s">>,
             rule |-> << <<<<"s","e","c","t","i","o","n","_","t","i","t","l","e">>, <<"C","l","a","i","m","s">>>>, <<<<"a","p","p","l","i","e","s","_","t","o">>, <<"t","h","e","r","a","p","y">>>> >>] >>] }

MarkdownPool == { << >>, <<"\n","#"," ","T","h","e","r","a","p","y","\n","H","o","m","e"," ","c","a","r","e","\n","#","#"," ","T","r","a","v","e","l","\n","\n","C","l","a","i","m","i","n","g"," ","t","r","a","v","e","l"," ","f","o","r"," ","t","h","e","r","a","p","y">> }

IntentPhrases == { << >>, <<"P","r","i","c","e">>, <<"c","l","a","i","m","i","n","g">>, <<"w","h","a","t"," ","i","s">>, <<"c","a","n"," ","i">> }

ContentPhrases == { <<"t","h","e","r","a","p","y"," ","t","r","a","v","e","l">>, <<"h","o","m","e"," ","c","a","r","e"," ","c","l","a","i","m","s">>, <<"t","h","e"," ","t","o","?">> }

ModifierPhrases == { << >>, <<"i","n"," ","N","S","W">> }

QueryPool ==
    {i \o <<" ">> \o c \o <<" ">> \o m : i \in IntentPhrases, c \in ContentPhrases, m \in ModifierPhrases}
    \cup { << >>, <<"$">>, <<"$"," ","t","h","e"," ","t","o","?">>, <<"H","o","w"," ","m","u","c","h"," ","d","o","e","s"," ","i","t"," ","c","o","s","t"," ","t","o"," ","c","l","a","i","m"," ","t","r","a","n","s","p","o","r","t">>,
           <<"c","o","s","t"," ","o","f"," ","c","l","a","i","m","i","n","g">>, <<"w","h","a","t"," ","i","s"," ","a","v","a","i","l","a","b","l","e">>, <<"c","a","n"," ","i"," ","c","l","a","i","m"," ","t","r","a","v","e","l">>, <<"e","x","p","l","a","i","n"," ","c","l","a","i","m","i","n","g">>,
           <<"t","r","a","v","e","l"," ","t","h","e","r","a","p","y"," ","i","n"," ","N","S","W"," ","o","l","d"," ","f","r","a","m","e","w","o","r","k">>, <<"p","r","i","c","e"," ","t","h","e","r","a","p","y"," ","t","r","a","v","e","l"," ","i","n"," ","v","i","c","t","o","r","i","a"," ","n","e","w"," ","f","r","a","m","e","w","o","r","k">>,
           <<"c","l","a","i","m","s"," ","t","r","a","v","e","l"," ","c","l","a","i","m","s">>, <<"t","r","a","v","e","l"," ","t","h","e","r","a","p","y"," ","t","r","a","v","e","l">>,
           <<"t","h","e","r","a","p","y"," ","i","n"," ","N","S","W"," ","o","r"," ","i","n"," ","V","i","c","t","o","r","i","a">>, <<"c","l","a","i","m","i","n","g","_","r","u","l","e","s"," ","t","r","a","v","e","l">> }

\* the string-hash seeds a process may start with
HashSeeds == {0, 1}

NoCall ==
    [query |-> << >>, max_results |-> 0, intent |-> understand_query_intent(<< >>),
     invoked |-> << >>, emitted |-> << >>, outcome |-> "none", results |-> << >>]

---------------------------------------------------------------------------
(* The corpus of the assistant (src/lib/papl_assistant.py,                 *)
(* BedrockRAGAssistant). A Document is                                     *)
(*   [content, source_type, chunk_id, key, embedding]                      *)
(* where key is what its metadata identifies it by (item number, rule      *)
(* name, section index) and content is cut down to the part of the text    *)
(* that tells the documents of the model apart: the item name, the rule    *)
(* name, the section. None is the one-element sequence <<"None">>.         *)

None == <<"None">>

\* doc.embedding before _embed_all_documents has set it
NotEmbedded == [kind |-> "none", vector |-> << >>]

\* item['price_limits'][state].get('price', 0) fails when an entry of the
\* price table is not a mapping
create_pricing_document_raises(item) ==
    /\ "price_limits" \in DOMAIN item
    /\ \E state \in DOMAIN item["price_limits"] : ~item["price_limits"][state].mapping

\* what an f-string makes of a value that is a text or None
format_value(value) == IF value = None THEN <<"N","o","n","e">> ELSE value

\* _create_pricing_document, as the sequence of the one document it returns
create_pricing_documents(item) ==
    << [content |-> get(item, "support_item_name", <<"U","n","k","n","o","w","n">>),
        source_type |-> "pricing",
        chunk_id |-> <<"p","r","i","c","i","n","g","_">> \o format_value(get(item, "support_item_number", None)),
        key |-> get(item, "support_item_number", None),
        embedding |-> NotEmbedded] >>

create_rule_document(rule_name, rule_content) ==
    [content |-> rule_name,
     source_type |-> "rule",
     chunk_id |-> <<"r","u","l","e","_">> \o rule_name,
     key |-> rule_name,
     embedding |-> NotEmbedded]

\* the length of the match of  \n##\s+  at text[i], 0 when there is none
major_heading_match(text, i) ==
    IF i + 2 <= Len(text) /\ text[i] = "\n" /\ text[i + 1] = "#" /\ text[i + 2] = "#"
    THEN LET spaces == run_length(text, i + 3, Whitespace)
         IN  IF spaces >= 1 THEN 3 + spaces ELSE 0
    ELSE 0

\* re.split(r'\n##\s+', markdown)
RECURSIVE split_major_from(_, _, _)
split_major_from(text, start, i) ==
    IF i > Len(text) THEN <<SubSeq(text, start, Len(text))>>
    ELSE LET m == major_heading_match(text, i)
         IN  IF m > 0
             THEN <<SubSeq(text, start, i - 1)>> \o split_major_from(text, i + m, i + m)
             ELSE split_major_from(text, start, i + 1)

split_major_sections(markdown) == split_major_from(markdown, 1, 1)

\* str(i) of a natural number
RECURSIVE int_str(_)
int_str(i) == IF i < 10 THEN <<DigitChars[i + 1]>> ELSE int_str(i \div 10) \o <<DigitChars[(i % 10) + 1]>>

\* the loop of _create_guidance_documents from section number i on
RECURSIVE guidance_documents_from(_, _)
guidance_documents_from(sections, i) ==
    IF i >= Len(sections) THEN << >>
    ELSE (IF has_non_space(sections[i + 1])
          THEN << [content |-> sections[i + 1],
                   source_type |-> "guidance",
                   chunk_id |-> <<"g","u","i","d","a","n","c","e","_">> \o int_str(i),
                   key |-> int_str(i),
                   embedding |-> NotEmbedded] >>
          ELSE << >>)
         \o guidance_documents_from(sections, i + 1)

create_guidance_documents(markdown) == guidance_documents_from(split_major_sections(markdown), 0)

\* the documents of the support items, in the order of the catalogue
RECURSIVE pricing_documents(_)
pricing_documents(items) ==
    IF items = << >> THEN << >>
    ELSE create_pricing_documents(Head(items)) \o pricing_documents(Tail(items))

\* the documents of the rules, in the order of the mapping
rule_documents(rules) ==
    List([i \in 1..Len(rules) |-> create_rule_document(rules[i].name, rules[i].rule)], Len(rules))

\* the corpus built with the guidance documents ahead of the others
build_document_corpus_guidance_first(json, yaml, markdown) ==
    LET items == IF "support_items" \in DOMAIN json THEN json["support_items"] ELSE << >>
        rules == IF "claiming_rules" \in DOMAIN yaml THEN yaml["claiming_rules"] ELSE << >>
    IN  [raised |-> \E i \in 1..Len(items) : create_pricing_document_raises(items[i]),
         documents |-> create_guidance_documents(markdown) \o pricing_documents(items)
                           \o rule_documents(rules)]

\* _build_document_corpus: [raised, documents]; an exception of
\* _create_pricing_document ends it
build_document_corpus(json, yaml, markdown) ==
    LET items == IF "support_items" \in DOMAIN json THEN json["support_items"] ELSE << >>
        rules == IF "claiming_rules" \in DOMAIN yaml THEN yaml["claiming_rules"] ELSE << >>
    IN  [raised |-> \E i \in 1..Len(items) : create_pricing_document_raises(items[i]),
         documents |-> pricing_documents(items) \o rule_documents(rules)
                           \o create_guidance_documents(markdown)]

---------------------------------------------------------------------------
(* Embeddings and retrieval. The embedding capability is outside the       *)
(* program: a call of it yields a vector (ok), raises (fails) or answers   *)
(* without an 'embedding' entry (malformed), and then _get_embedding       *)
(* returns np.array(None). An embedding is [kind, vector] with kind        *)
(* "vector", "malformed" or "none".                                        *)

ProviderOutcomes == {"ok", "fails", "malformed"}

\* the vectors of the embedding model: none is zero, no two are parallel,
\* and two of them are as similar to a third exactly when the floating
\* point quotients of retrieve_relevant_documents are equal
EmbeddingVectors == << <<1, 0>>, <<0, 1>>, <<1, 1>>, <<-1, 1>> >>

\* the vector the embedding model gives a text
titan_embed(text) ==
    EmbeddingVectors[1 + ((Len(text) + Cardinality({i \in 1..Len(text) : text[i] \in {"a", "e"}})) % 4)]

\* _get_embedding: [raised, embedding]
get_embedding(text, outcome) ==
    CASE outcome = "ok" -> [raised |-> FALSE, embedding |-> [kind |-> "vector", vector |-> titan_embed(text)]]
      [] outcome = "malformed" -> [raised |-> FALSE, embedding |-> [kind |-> "malformed", vector |-> << >>]]
      [] outcome = "fails" -> [raised |-> TRUE, embedding |-> NotEmbedded]

\* _embed_all_documents, the capability answering every call alike:
\* [raised, documents]
embed_all_documents(docs, outcome) ==
    [raised |-> docs # << >> /\ outcome = "fails",
     documents |-> List([i \in 1..Len(docs) |->
                            [docs[i] EXCEPT
                                !.embedding = get_embedding(docs[i].content, outcome).embedding]],
                        Len(docs))]

dot(a, b) == a[1] * b[1] + a[2] * b[2]

sign(x) == IF x > 0 THEN 1 ELSE IF x < 0 THEN -1 ELSE 0

\* cosine(q, a) < cosine(q, b) for non-zero vectors, in the integers: the
\* cosines are dot(q, v) / (|q| |v|), and x -> sign(x) x^2 keeps the order
cosine_less(q, a, b) ==
    sign(dot(q, a)) * dot(q, a) * dot(q, a) * dot(b, b)
        < sign(dot(q, b)) * dot(q, b) * dot(q, b) * dot(a, a)

\* a sort without reverse=True: least similar first
insert_least_similar_first(sorted, doc, q) ==
    LET k == Cardinality({i \in 1..Len(sorted) :
                             ~cosine_less(q, doc.embedding.vector, sorted[i].embedding.vector)})
    IN  SubSeq(sorted, 1, k) \o <<doc>> \o SubSeq(sorted, k + 1, Len(sorted))

\* where similarities.sort(key=..., reverse=True) puts one more document:
\* after every document that is at least as similar (the sort is stable)
insert_by_similarity(sorted, doc, q) ==
    LET k == Cardinality({i \in 1..Len(sorted) :
                             ~cosine_less(q, sorted[i].embedding.vector, doc.embedding.vector)})
    IN  SubSeq(sorted, 1, k) \o <<doc>> \o SubSeq(sorted, k + 1, Len(sorted))

RECURSIVE sort_by_similarity(_, _, _)
sort_by_similarity(docs, n, q) ==
    IF n = 0 THEN << >> ELSE insert_by_similarity(sort_by_similarity(docs, n - 1, q), docs[n], q)

\* retrieve_relevant_documents after the query has been embedded:
\* [raised, documents]. np.dot raises TypeError on np.array(None).
retrieve(docs, query_embedding, top_k) ==
    LET embedded == SelectSeq(docs, LAMBDA doc : doc.embedding.kind # "none")
    IN  IF embedded = << >> THEN [raised |-> FALSE, documents |-> << >>]
        ELSE IF query_embedding.kind # "vector"
                \/ \E i \in 1..Len(embedded) : embedded[i].embedding.kind # "vector"
        THEN [raised |-> TRUE, documents |-> << >>]
        ELSE [raised |-> FALSE,
              documents |-> Prefix(sort_by_similarity(embedded, Len(embedded), query_embedding.vector),
                                   top_k)]

---------------------------------------------------------------------------
(* ask. The generation capability, like the embedding capability, answers  *)
(* (ok), raises (fails) or answers without the expected entries            *)
(* (malformed). A reply records one operation on the assistant:            *)
(*   op         "none", "construct", "ask" or "clear"                      *)
(*   outcome    of an ask: "answered", "no_information" or "raised"        *)
(*   error      the type of the exception raised, "None" when none         *)
(*   embedding, generation   what the capability did in the call, or       *)
(*              "not called"                                               *)
(*   rebuilds   of a construct: a constructed assistant is replaced        *)
(*   previous   of a construct: the chunk ids of the corpus it replaces    *)

NoInformation == <<"I"," ","c","o","u","l","d","n","'","t"," ","f","i","n","d"," ","r","e","l","e","v","a","n","t"," ","i","n","f","o","r","m","a","t","i","o","n"," ","i","n"," ","t","h","e"," ","P","A","P","L"," ","d","o","c","u","m","e","n","t","s"," ","t","o"," ","a","n","s","w","e","r"," ","y","o","u","r"," ","q","u","e","s","t","i","o","n",".">>

\* the text the generation capability gives
claude_answer == <<"A","c","c","o","r","d","i","n","g"," ","t","o"," ","D","o","c","u","m","e","n","t"," ","1">>

NoReply ==
    [op |-> "none", query |-> << >>, top_k |-> 0, outcome |-> "none", error |-> "None",
     answer |-> << >>, sources |-> << >>, retrieved_docs |-> 0,
     embedding |-> "not called", generation |-> "not called", rebuilds |-> FALSE,
     previous |-> << >>]

chunk_ids(docs) == List([i \in 1..Len(docs) |-> docs[i].chunk_id], Len(docs))

\* ask that goes on to the generation step with no document retrieved
ask_always_generates(docs, query, top_k, embedding, generation) ==
    LET embedded == get_embedding(query, embedding)
        retrieved == retrieve(docs, embedded.embedding, top_k)
        asked == [NoReply EXCEPT !.op = "ask", !.query = query, !.top_k = top_k,
                                 !.embedding = embedding]
    IN  IF embedded.raised
        THEN [asked EXCEPT !.outcome = "raised", !.error = "ClientError"]
        ELSE IF retrieved.raised
        THEN [asked EXCEPT !.outcome = "raised", !.error = "TypeError"]
        ELSE IF generation = "fails"
        THEN [asked EXCEPT !.outcome = "raised", !.error = "ClientError", !.generation = generation]
        ELSE IF generation = "malformed"
        THEN [asked EXCEPT !.outcome = "raised", !.error = "KeyError", !.generation = generation]
        ELSE [asked EXCEPT !.outcome = "answered", !.answer = claude_answer,
                           !.sources = retrieved.documents,
                           !.retrieved_docs = Len(retrieved.documents),
                           !.generation = generation]

\* ask(query, top_k): the reply of the call. Exceptions of invoke_model pass
\* through as they are (ClientError stands for them); a generation response
\* without 'content' fails the subscript with a KeyError.
ask(docs, query, top_k, embedding, generation) ==
    LET embedded == get_embedding(query, embedding)
        retrieved == retrieve(docs, embedded.embedding, top_k)
        asked == [NoReply EXCEPT !.op = "ask", !.query = query, !.top_k = top_k,
                                 !.embedding = embedding]
    IN  IF embedded.raised
        THEN [asked EXCEPT !.outcome = "raised", !.error = "ClientError"]
        ELSE IF retrieved.raised
        THEN [asked EXCEPT !.outcome = "raised", !.error = "TypeError"]
        ELSE IF retrieved.documents = << >>
        THEN [asked EXCEPT !.outcome = "no_information", !.answer = NoInformation]
        ELSE IF generation = "fails"
        THEN [asked EXCEPT !.outcome = "raised", !.error = "ClientError", !.generation = generation]
        ELSE IF generation = "malformed"
        THEN [asked EXCEPT !.outcome = "raised", !.error = "KeyError", !.generation = generation]
        ELSE [asked EXCEPT !.outcome = "answered", !.answer = claude_answer,
                           !.sources = retrieved.documents,
                           !.retrieved_docs = Len(retrieved.documents),
                           !.generation = generation]

\* the turn that ask appends for a reply
turn_of(answered) ==
    [query |-> answered.query, answer |-> answered.answer, sources |-> chunk_ids(answered.sources)]

\* a history that keeps the latest turn only
record_latest_only(history, answered) ==
    IF answered.outcome = "answered" THEN <<turn_of(answered)>> ELSE history

\* a history that gets a turn for every call of ask
record_attempts(history, answered) == Append(history, turn_of(answered))

\* an append that writes over the latest turn
record_over_latest(history, answered) ==
    IF answered.outcome # "answered" THEN history
    ELSE SubSeq(history, 1, Len(history) - 1) \o <<turn_of(answered)>>

\* self.conversation_history.append(...), reached only after generation
record(history, answered) ==
    IF answered.outcome = "answered" THEN Append(history, turn_of(answered)) ELSE history

---------------------------------------------------------------------------
(* The data an assistant is built from, and the questions put to it        *)

MaxTurns == 2

MaxTopK == 2

\* support items: two that share a number, one with an empty number, one
\* without a number, one with a price entry that is not a mapping
AssistantItems ==
    << [support_item_number |-> <<"0","1">>, support_item_name |-> <<"T","h","e","r","a","p","y">>,
        price_limits |-> [s \in {"NSW"} |-> Mapping(19399)]],
       [support_item_number |-> <<"0","1">>, support_item_name |-> <<"T","r","a","v","e","l">>,
        price_limits |-> [s \in {"VIC"} |-> Mapping(100)]],
       [support_item_number |-> << >>, support_item_name |-> <<"H","o","m","e">>],
       [support_item_name |-> <<"C","a","r","e">>],
       [support_item_number |-> <<"0","3">>, support_item_name |-> <<"M","e","a","l","s">>,
        price_limits |-> [s \in {"NSW"} |-> [mapping |-> FALSE, price |-> 5000]]] >>

\* the catalogues: none of the records, one, and pairs that repeat a
\* number, lack numbers, have one number-less record, have a price entry
\* that is not a mapping
AssistantCatalogues ==
    { << >>,
      <<AssistantItems[1]>>,
      <<AssistantItems[1], AssistantItems[2]>>,
      <<AssistantItems[3], AssistantItems[4]>>,
      <<AssistantItems[4], AssistantItems[2]>>,
      <<AssistantItems[1], AssistantItems[5]>> }

AssistantJsonPool == {NoMapping} \cup {[support_items |-> items] : items \in AssistantCatalogues}

\* a guidance text that starts with a heading, so that its first section is empty
AssistantMarkdownPool == { << >>, <<"\n","#","#"," ","T","r","a","v","e","l","\n","C","l","a","i","m","i","n","g"," ","t","r","a","v","e","l","\n","#","#"," "," ","T","h","e","r","a","p","y">> }

AskPool == { <<"t","h","e","r","a","p","y">>, <<"c","a","r","e">> }

---------------------------------------------------------------------------
(* Refinements (suggest_refinements, _find_similar_terms)                  *)

\* ', '.join(texts)
RECURSIVE join(_)
join(texts) ==
    IF Len(texts) <= 1 THEN Concat(texts)
    ELSE Head(texts) \o <<","," ">> \o join(Tail(texts))

\* for indexed_term in self.pricing_index.keys(), from entry i on
RECURSIVE similar_in_index(_, _, _)
similar_in_index(similar, term, i) ==
    IF i > Len(pricing_index) THEN similar
    ELSE LET indexed_term == pricing_index[i].term
         IN  similar_in_index(
                 IF /\ \/ Contains(indexed_term, Prefix(term, 3))
                       \/ Contains(term, Prefix(indexed_term, 3))
                    /\ indexed_term \notin Range(similar)
                 THEN Append(similar, indexed_term)
                 ELSE similar,
                 term, i + 1)

\* for term in terms
RECURSIVE similar_for_terms(_, _)
similar_for_terms(similar, terms) ==
    IF terms = << >> THEN similar
    ELSE similar_for_terms(similar_in_index(similar, Head(terms), 1), Tail(terms))

\* _find_similar_terms
find_similar_terms(terms) == Prefix(similar_for_terms(<< >>, terms), 5)

StateCodes == <<<<"n","s","w">>, <<"v","i","c">>, <<"q","l","d">>, <<"s","a">>, <<"w","a">>, <<"t","a","s">>, <<"n","t">>, <<"a","c","t">>>>

NarrowSuggestion == <<"T","r","y"," ","b","e","i","n","g"," ","m","o","r","e"," ","s","p","e","c","i","f","i","c"," ","(","e",".","g",".",","," ","a","d","d"," ","c","a","t","e","g","o","r","y"," ","o","r"," ","s","t","a","t","e",")">>

AddStateSuggestion == <<"A","d","d"," ","y","o","u","r"," ","s","t","a","t","e"," ","t","o"," ","s","e","e"," ","l","o","c","a","l"," ","p","r","i","c","i","n","g"," ","(","e",".","g",".",","," ","'","i","n"," ","N","S","W","'",")">>

\* suggest_refinements(query, results)
suggest_refinements(query, results) ==
    LET similar == find_similar_terms(extract_terms(query))
    IN  (IF Len(results) > 50 THEN <<NarrowSuggestion>> ELSE << >>)
        \o (IF Len(results) = 0 /\ similar # << >>
            THEN <<<<"D","i","d"," ","y","o","u"," ","m","e","a","n",":"," ">> \o join(Prefix(similar, 3)) \o <<"?">>>>
            ELSE << >>)
        \o (IF ~any_in(StateCodes, lower(query)) THEN <<AddStateSuggestion>> ELSE << >>)

\* a refinement records one call of suggest_refinements: the query, the
\* number of results it was given, and the suggestions
NoRefinement == [op |-> "none", query |-> << >>, n_results |-> 0, suggestions |-> << >>]

---------------------------------------------------------------------------
(* The data and the queries the refinements are checked on                 *)

RefineItems ==
    << [support_item_number |-> <<"0","1">>, support_item_name |-> <<"T","h","e","r","a","p","y"," ","T","h","e","a","t","r","e">>,
        support_category |-> <<"T","h","e","r","m","a","l">>, registration_group |-> <<"B","a","t","h","e">>,
        price_limits |-> [s \in {"NSW"} |-> Mapping(19399)]],
       [support_item_number |-> <<"0","2">>, support_item_name |-> <<"T","r","a","v","e","l">>,
        support_category |-> <<"T","r","a","n","s","p","o","r","t">>, registration_group |-> << >>,
        price_limits |-> [s \in {"NSW", "VIC"} |-> Mapping(100)]] >>

RefineJsonPool ==
    { NoMapping, [support_items |-> <<RefineItems[1]>>], [support_items |-> <<RefineItems[2]>>],
      [support_items |-> RefineItems] }

\* a guidance text whose section is longer than GuidancePrefixLen
RefineMarkdownPool ==
    { << >>,
      <<"\n","#"," ","T","h","e","r","a","p","y","\n","T","h","e","r","a","p","y"," ","s","u","p","p","o","r","t","s"," ","a","r","e"," ","c","l","a","i","m","e","d"," ","p","e","r"," ","h","o","u","r","."," ","T","h","e"," ","p","r","o","v","i","d","e","r"," ","r","e","c","o","r","d","s"," ","t","h","e"," ","t","i","m","e"," ","s","p","e","n","t"," ","w","i","t","h"," ","t","h","e"," ","p","a","r","t","i","c","i","p","a","n","t"," ","a","n","d"," ","t","h","e"," ","t","i","m","e"," ","s","p","e","n","t"," ","o","n"," ","r","e","p","o","r","t","s",","," ","a","n","d"," ","k","e","e","p","s"," ","t","h","e"," ","r","e","c","o","r","d","s"," ","f","o","r"," ","a","u","d","i","t","."," ","T","r","a","v","e","l"," ","t","o"," ","t","h","e"," ","p","a","r","t","i","c","i","p","a","n","t"," ","i","s"," ","c","l","a","i","m","e","d"," ","a","s"," ","a"," ","s","e","p","a","r","a","t","e"," ","i","t","e","m"," ","u","n","d","e","r"," ","t","h","e"," ","t","r","a","v","e","l"," ","r","u","l","e","s","."," ","M","e","a","l","s"," ","a","r","e"," ","n","o","t"," ","c","o","v","e","r","e","d",".">> }

RefineQueryPool ==
    { << >>, <<"c","l","o","t","h","e","s">>, <<"t","h","e","r","a","p","i","s","t">>, <<"T","h","e","r","m","a","l"," ","b","a","t","h","s">>, <<"p","a","y","m","e","n","t"," ","r","u","l","e","s">>, <<"p","r","i","c","e"," ","i","n"," ","q","l","d">>,
      <<"m","e","a","l","s">>, <<"m","e","a","l","s"," ","i","n"," ","N","S","W">>, <<"t","h","e","r","a","p","y"," ","i","n"," ","n","e","w"," ","s","o","u","t","h"," ","w","a","l","e","s">>, <<"n","s","w"," ","t","h","e","r","a","p","y">>, <<"t","r","a","v","e","l">>,
      <<"c","l","a","i","m","e","d"," ","t","r","a","v","e","l"," ","i","n"," ","V","i","c","t","o","r","i","a">> }

---------------------------------------------------------------------------
(* The state machine                                                       *)

\* __init__ and _build_indices
Init ==
    /\ json_data \in JsonPool
    /\ yaml_data \in YamlPool
    /\ markdown_data \in MarkdownPool
    /\ pricing_index = build_pricing_index(json_data)
    /\ rule_index = build_rule_index(yaml_data)
    /\ guidance_index = index_markdown_sections(markdown_data)
    /\ hash_seed \in HashSeeds
    /\ phase = "idle"
    /\ call = NoCall
    /\ documents = << >>
    /\ conversation_history = << >>
    /\ assistant = "none"
    /\ reply = NoReply
    /\ refinement = NoRefinement
    /\ threads = << >>

\* a search whose lookup leaves an entry in the pricing index for a term it
\* did not find there
Search_filling_index ==
    /\ phase = "idle"
    /\ \E query \in QueryPool :
           /\ call' \in LET ranked == search_ranked(query)
                        IN  {truncate(ranked, max_results) : max_results \in 0..MaxResultsBound}
           /\ pricing_index' =
                  LET missing == SelectSeq(extract_terms(query),
                                           LAMBDA term : ~index_has(pricing_index, term))
                  IN  IF missing = << >> THEN pricing_index
                      ELSE Append(pricing_index, [term |-> missing[1], keys |-> << >>])
    /\ phase' = "searched"
    /\ UNCHANGED <<json_data, yaml_data, markdown_data, rule_index, guidance_index, hash_seed>>
    /\ UNCHANGED <<documents, conversation_history, assistant, reply, refinement, threads>>

\* search(query, max_results): the call record keeps what the call computed
Search ==
    /\ phase = "idle"
    /\ \E query \in QueryPool :
           call' \in LET ranked == search_ranked(query)
                     IN  {truncate(ranked, max_results) : max_results \in 0..MaxResultsBound}
    /\ phase' = "searched"
    /\ UNCHANGED <<json_data, yaml_data, markdown_data, pricing_index, rule_index,
                   guidance_index, hash_seed>>
    /\ UNCHANGED <<documents, conversation_history, assistant, reply, refinement, threads>>

\* a new process builds a new engine from the same data
Rebuild ==
    /\ phase = "searched"
    /\ hash_seed' \in HashSeeds \ {hash_seed}
    /\ pricing_index' = build_pricing_index(json_data)
    /\ rule_index' = build_rule_index(yaml_data)
    /\ guidance_index' = index_markdown_sections(markdown_data)
    /\ UNCHANGED <<json_data, yaml_data, markdown_data, phase, call>>
    /\ UNCHANGED <<documents, conversation_history, assistant, reply, refinement, threads>>

\* the caller is done with the results
Return ==
    /\ phase = "searched"
    /\ phase' = "idle"
    /\ call' = NoCall
    /\ UNCHANGED <<json_data, yaml_data, markdown_data, pricing_index, rule_index,
                   guidance_index, hash_seed>>
    /\ UNCHANGED <<documents, conversation_history, assistant, reply, refinement, threads>>

Next == Search \/ Rebuild \/ Return

Spec == Init /\ [][Next]_vars

---------------------------------------------------------------------------
(* The assistant: constructed from the same three files, asked, cleared    *)

\* the data is loaded; no assistant has been constructed
AssistantInit ==
    /\ json_data \in AssistantJsonPool
    /\ yaml_data \in YamlPool
    /\ markdown_data \in AssistantMarkdownPool
    /\ pricing_index = << >>
    /\ rule_index = << >>
    /\ guidance_index = << >>
    /\ hash_seed = 0
    /\ phase = "idle"
    /\ call = NoCall
    /\ documents = << >>
    /\ conversation_history = << >>
    /\ assistant = "none"
    /\ reply = NoReply
    /\ refinement = NoRefinement
    /\ threads = << >>

\* BedrockRAGAssistant(...): the corpus is built and embedded, the history
\* starts empty; an exception leaves no assistant. The embedding capability
\* behaves in one way throughout a construction.
Construct ==
    /\ \E outcome \in ProviderOutcomes :
           LET built == build_document_corpus(json_data, yaml_data, markdown_data)
               embedded == embed_all_documents(built.documents, outcome)
           IN  /\ IF built.raised \/ embedded.raised
                  THEN assistant' = "failed" /\ documents' = << >>
                  ELSE assistant' = "ready" /\ documents' = embedded.documents
               /\ reply' = [NoReply EXCEPT
                                !.op = "construct",
                                !.embedding = IF built.raised \/ built.documents = << >>
                                              THEN "not called" ELSE outcome,
                                !.rebuilds = (assistant = "ready"),
                                !.previous = chunk_ids(documents)]
    /\ conversation_history' = << >>
    /\ UNCHANGED <<json_data, yaml_data, markdown_data, pricing_index, rule_index,
                   guidance_index, hash_seed, phase, call, refinement, threads>>

\* ask(query, top_k)
Ask ==
    /\ assistant = "ready"
    /\ Len(conversation_history) < MaxTurns
    /\ \E query \in AskPool, top_k \in 0..MaxTopK, embedding \in ProviderOutcomes,
          generation \in ProviderOutcomes :
           /\ reply' = ask(documents, query, top_k, embedding, generation)
           /\ conversation_history' = record(conversation_history, reply')
    /\ UNCHANGED <<json_data, yaml_data, markdown_data, pricing_index, rule_index,
                   guidance_index, hash_seed, phase, call, documents, assistant,
                   refinement, threads>>

\* clear_history()
ClearHistory ==
    /\ assistant = "ready"
    /\ conversation_history' = << >>
    /\ reply' = [NoReply EXCEPT !.op = "clear"]
    /\ UNCHANGED <<json_data, yaml_data, markdown_data, pricing_index, rule_index,
                   guidance_index, hash_seed, phase, call, documents, assistant,
                   refinement, threads>>

AssistantNext == Construct \/ Ask \/ ClearHistory

AssistantSpec == AssistantInit /\ [][AssistantNext]_vars

---------------------------------------------------------------------------
(* The refinements: an engine is built, and the page asks it for the       *)
(* refinements of a query with the results of the search for the query     *)

RefineInit ==
    /\ json_data \in RefineJsonPool
    /\ yaml_data \in YamlPool
    /\ markdown_data \in RefineMarkdownPool
    /\ pricing_index = build_pricing_index(json_data)
    /\ rule_index = build_rule_index(yaml_data)
    /\ guidance_index = index_markdown_sections(markdown_data)
    /\ hash_seed = 0
    /\ phase = "idle"
    /\ call = NoCall
    /\ documents = << >>
    /\ conversation_history = << >>
    /\ assistant = "none"
    /\ reply = NoReply
    /\ refinement = NoRefinement
    /\ threads = << >>

\* results = search(query, max_results); suggest_refinements(query, results)
Suggest ==
    /\ \E query \in RefineQueryPool, max_results \in {0, MaxResultsBound} :
           \E results \in {search(query, max_results).results} :
               refinement' = [op |-> "suggest", query |-> query, n_results |-> Len(results),
                              suggestions |-> suggest_refinements(query, results)]
    /\ UNCHANGED <<json_data, yaml_data, markdown_data, pricing_index, rule_index,
                   guidance_index, hash_seed, phase, call, documents,
                   conversation_history, assistant, reply, threads>>

RefineNext == Suggest

RefineSpec == RefineInit /\ [][RefineNext]_vars

---------------------------------------------------------------------------
(* Calls of ask that run at the same time on one assistant. A thread is    *)
(* [pc, reply]: a call is "ready" to start, "generating" once it has       *)
(* retrieved documents, "generated" once the answer is back, and "done"    *)
(* when it has returned or raised. The calls to the provider are where a   *)
(* thread gives way to the others; list.append is one step.                *)

MaxThreads == 2

ReadyThread == [pc |-> "ready", reply |-> NoReply]

\* an assistant was constructed, with the provider working
ConcurrentInit ==
    /\ json_data = [support_items |-> <<AssistantItems[1], AssistantItems[2]>>]
    /\ yaml_data \in YamlPool
    /\ markdown_data = << >>
    /\ pricing_index = << >>
    /\ rule_index = << >>
    /\ guidance_index = << >>
    /\ hash_seed = 0
    /\ phase = "idle"
    /\ call = NoCall
    /\ documents = embed_all_documents(
                       build_document_corpus(json_data, yaml_data, markdown_data).documents,
                       "ok").documents
    /\ conversation_history = << >>
    /\ assistant = "ready"
    /\ reply = NoReply
    /\ refinement = NoRefinement
    /\ threads = [t \in 1..MaxThreads |-> ReadyThread]

\* ask up to the return of retrieve_relevant_documents
AskRetrieve ==
    /\ \E t \in 1..MaxThreads :
           /\ threads[t].pc = "ready"
           /\ \E query \in AskPool, top_k \in {0, MaxTopK}, embedding \in ProviderOutcomes :
                  LET retrieved == ask(documents, query, top_k, embedding, "ok")
                  IN  threads' = [threads EXCEPT ![t] =
                          IF retrieved.outcome = "answered"
                          THEN [pc |-> "generating",
                                reply |-> [retrieved EXCEPT !.outcome = "none", !.answer = << >>,
                                                            !.generation = "not called"]]
                          ELSE [pc |-> "done", reply |-> retrieved]]
    /\ UNCHANGED <<json_data, yaml_data, markdown_data, pricing_index, rule_index,
                   guidance_index, hash_seed, phase, call, documents,
                   conversation_history, assistant, reply, refinement>>

\* ask up to the return of _call_claude_bedrock
AskGenerate ==
    /\ \E t \in 1..MaxThreads :
           /\ threads[t].pc = "generating"
           /\ \E generation \in ProviderOutcomes :
                  LET generated == ask(documents, threads[t].reply.query, threads[t].reply.top_k,
                                       threads[t].reply.embedding, generation)
                  IN  threads' = [threads EXCEPT ![t] =
                          [pc |-> IF generated.outcome = "answered" THEN "generated" ELSE "done",
                           reply |-> generated]]
    /\ UNCHANGED <<json_data, yaml_data, markdown_data, pricing_index, rule_index,
                   guidance_index, hash_seed, phase, call, documents,
                   conversation_history, assistant, reply, refinement>>

\* self.conversation_history.append(...) and the return of ask
AskRecord ==
    /\ \E t \in 1..MaxThreads :
           /\ threads[t].pc = "generated"
           /\ conversation_history' = record(conversation_history, threads[t].reply)
           /\ threads' = [threads EXCEPT ![t].pc = "done"]
    /\ UNCHANGED <<json_data, yaml_data, markdown_data, pricing_index, rule_index,
                   guidance_index, hash_seed, phase, call, documents, assistant, reply,
                   refinement>>

ConcurrentNext == AskRetrieve \/ AskGenerate \/ AskRecord

ConcurrentSpec == ConcurrentInit /\ [][ConcurrentNext]_vars

---------------------------------------------------------------------------
(* Properties of the intent classifier and of search                       *)

\* a call of search has been made, and it returned a list
Returned == phase = "searched" /\ call.outcome = "returned"

QueryTerms == extract_terms(call.query)

\* the 0-based position in seq of its first element equal to r
PositionIn(seq, r) == CHOOSE i \in 1..Len(seq) : seq[i] = r /\ \A j \in 1..(i - 1) : seq[j] # r

\* the support items of the catalogue
SupportItems == IF "support_items" \in DOMAIN json_data THEN json_data["support_items"] ELSE << >>

\* the phrases of the four rules of the classifier, as sets
PricingPhrases == {<<"p","r","i","c","e">>, <<"c","o","s","t">>, <<"h","o","w"," ","m","u","c","h">>, <<"$">>}

ClaimingPhrases == {<<"c","a","n"," ","i"," ","c","l","a","i","m">>, <<"h","o","w"," ","t","o"," ","c","l","a","i","m">>, <<"c","l","a","i","m","i","n","g">>, <<"r","u","l","e","s"," ","f","o","r">>}

DefinitionPhrases == {<<"w","h","a","t"," ","i","s">>, <<"w","h","a","t"," ","a","r","e">>, <<"d","e","f","i","n","e">>, <<"e","x","p","l","a","i","n">>}

BothPhrases == {<<"c","a","n"," ","i">>, <<"a","m"," ","i"," ","e","l","i","g","i","b","l","e">>, <<"a","v","a","i","l","a","b","l","e">>}

HasPhrase(text, phrases) == \E w \in phrases : Contains(text, w)

\* C1: the intent type of every classified query is that of the first rule,
\* in the order pricing, claiming, definition, both, that one of its phrases
\* matches the lower-cased query, and general when none does.
IntentPrecedence ==
    phase = "searched" =>
        LET q == lower(call.query)
            pricing == HasPhrase(q, PricingPhrases)
            claiming == HasPhrase(q, ClaimingPhrases)
            definition == HasPhrase(q, DefinitionPhrases)
            both == HasPhrase(q, BothPhrases)
        IN  /\ pricing => call.intent.type = "pricing"
            /\ ~pricing /\ claiming => call.intent.type = "claiming"
            /\ ~pricing /\ ~claiming /\ definition => call.intent.type = "definition"
            /\ ~pricing /\ ~claiming /\ ~definition /\ both => call.intent.type = "both"
            /\ ~pricing /\ ~claiming /\ ~definition /\ ~both => call.intent.type = "general"

\* a query that matches the pricing rule and the claiming rule was classified
IntentPrecedenceWitness ==
    /\ phase = "searched"
    /\ HasPhrase(lower(call.query), PricingPhrases)
    /\ HasPhrase(lower(call.query), ClaimingPhrases)
    /\ call.intent.type = "pricing"

SourceTypes(results) == {results[i].source_type : i \in 1..Len(results)}

RankedAndTruncated ==
    Returned /\ call.max_results >= 0 =>
        /\ \A i \in 1..(Len(call.results) - 1) :
               call.results[i].relevance_score >= call.results[i + 1].relevance_score
        /\ Len(call.results) = Min(call.max_results, Len(call.emitted))
        /\ \A i \in 1..Len(call.results) : \E j \in 1..Len(call.emitted) :
               call.emitted[j] = call.results[i]
        /\ \A i, j \in 1..Len(call.results) : i # j => call.results[i] # call.results[j]
        /\ \A j \in 1..Len(call.emitted) :
               (\A i \in 1..Len(call.results) : call.results[i] # call.emitted[j])
                   => \A i \in 1..Len(call.results) :
                          call.results[i].relevance_score >= call.emitted[j].relevance_score

\* a search cut its list short, and the merged list was not in order already
RankedAndTruncatedWitness ==
    /\ Returned
    /\ call.max_results >= 2
    /\ Len(call.emitted) > call.max_results
    /\ \E i \in 1..(Len(call.emitted) - 1) :
           call.emitted[i].relevance_score < call.emitted[i + 1].relevance_score

\* the results of one source type among the merged results of the call
Emitted(source_type) == SelectSeq(call.emitted, LAMBDA r : r.source_type = source_type)

\* the claiming rules, as the sequence of their [name, rule] entries
ClaimingRules == IF "claiming_rules" \in DOMAIN yaml_data THEN yaml_data["claiming_rules"] ELSE << >>

\* the sections of the guidance text; section number n is Sections[n + 1]
Sections == split_sections(markdown_data)

\* C4: in every sub-search that a returning search ran, each document whose
\* indexable text has at least one of the query's terms among its terms is in
\* the results of that sub-search: the support item itself for pricing, the
\* rule by its name, the section by its number.
OrSemantics ==
    Returned =>
        LET terms == Range(QueryTerms)
            pricing == Emitted("pricing")
            rules == Emitted("rule")
            guidance == Emitted("guidance")
        IN  /\ "pricing" \in Range(call.invoked) =>
                   \A i \in 1..Len(SupportItems) :
                       Range(extract_terms(indexable_text(SupportItems[i]))) \cap terms # {}
                           => \E j \in 1..Len(pricing) : pricing[j].item = SupportItems[i]
            /\ "rule" \in Range(call.invoked) =>
                   \A i \in 1..Len(ClaimingRules) :
                       Range(extract_terms(ClaimingRules[i].name)) \cap terms # {}
                           => \E j \in 1..Len(rules) : rules[j].rule_name = ClaimingRules[i].name
            /\ "guidance" \in Range(call.invoked) =>
                   \A n \in 0..(Len(Sections) - 1) :
                       /\ has_non_space(Sections[n + 1])
                       /\ Range(extract_terms(Prefix(Sections[n + 1], 200))) \cap terms # {}
                       => \E j \in 1..Len(guidance) : guidance[j].section_index = n

\* C5: a search whose query has no extracted term (the empty query, or one of
\* stop words, short tokens and punctuation only) returns, and returns the
\* empty list, with nothing found by any sub-search.
EmptyQuerySafety ==
    phase = "searched" /\ QueryTerms = << >> =>
        /\ call.outcome = "returned"
        /\ call.emitted = << >>
        /\ call.results = << >>

\* a query of stop words and punctuation was searched over three non-empty
\* indices, with room for results
EmptyQuerySafetyWitness ==
    /\ Returned
    /\ call.query # << >>
    /\ QueryTerms = << >>
    /\ call.max_results > 0
    /\ pricing_index # << >> /\ rule_index # << >> /\ guidance_index # << >>
    /\ call.results = << >>

\* the terms of the name of a support item
NameTerms(item) == extract_terms(lower(item.support_item_name))

\* the support items a, b with the same category and price table where the
\* name of b has the terms of a and one more, t: the triples <<a, b, t>>
NameExtensions ==
    {<<p[1], p[2], CHOOSE t \in Range(NameTerms(p[2])) \ Range(NameTerms(p[1])) : TRUE>> :
        p \in {q \in ItemPool \X ItemPool :
                  /\ q[1].support_category = q[2].support_category
                  /\ q[1].price_limits = q[2].price_limits
                  /\ Len(NameTerms(q[2])) = Len(NameTerms(q[1])) + 1
                  /\ Range(NameTerms(q[1])) \subseteq Range(NameTerms(q[2]))
                  /\ Cardinality(Range(NameTerms(q[2])) \ Range(NameTerms(q[1]))) = 1}}

\* C6: for the query and intent of a search, of two support items with the
\* same category and price table where the name of the second has the terms
\* of the first and one more, a term of the query, the second scores exactly
\* 3.0 (12 quarter points) more.
ScoreMonotonicity ==
    phase = "searched" =>
        LET query_terms == QueryTerms
        IN  \A p \in NameExtensions :
                p[3] \in Range(query_terms)
                    => score_support_item(p[2], query_terms, call.intent)
                           = score_support_item(p[1], query_terms, call.intent) + 12

\* a search found two such items, the first with a matching name term of its
\* own, and scored the second 3.0 higher
ScoreMonotonicityWitness ==
    /\ Returned
    /\ \E i, j \in 1..Len(call.emitted) :
           LET ra == call.emitted[i]
               rb == call.emitted[j]
           IN  /\ ra.source_type = "pricing" /\ rb.source_type = "pricing"
               /\ ra.item.support_category = rb.item.support_category
               /\ ra.item.price_limits = rb.item.price_limits
               /\ Range(NameTerms(ra.item)) \cap Range(QueryTerms) # {}
               /\ Range(NameTerms(rb.item)) \ Range(NameTerms(ra.item)) \subseteq Range(QueryTerms)
               /\ Cardinality(Range(NameTerms(rb.item)) \ Range(NameTerms(ra.item))) = 1
               /\ Range(NameTerms(ra.item)) \subseteq Range(NameTerms(rb.item))
               /\ ra.relevance_score >= 12
               /\ rb.relevance_score = ra.relevance_score + 12

\* the state modifiers of the call whose state the price table of item has
StatesPriced(item) ==
    {i \in 1..Len(call.intent.modifiers) :
        /\ call.intent.modifiers[i][1] = "state"
        /\ call.intent.modifiers[i][2] \in DOMAIN item.price_limits}

\* C7: every pricing result scores 3.0 (12 quarter points) for each distinct
\* query term among the terms of the item's name, 2.0 (8) once if a query
\* term is a substring of the lower-cased category, and 1.0 (4) for each
\* state modifier whose state is a key of the item's price table, and nothing
\* else; a search fails only on a price entry, of a requested state in the
\* table of a found item, that is not a mapping, so that neither a framework
\* modifier nor a state the table lacks makes it fail.
PricingScore ==
    phase = "searched" =>
        /\ LET terms == Range(QueryTerms)
           IN  \A i \in 1..Len(call.emitted) :
                   LET r == call.emitted[i]
                   IN  r.source_type = "pricing" =>
                           r.relevance_score =
                               12 * Cardinality(terms \cap Range(NameTerms(r.item)))
                               + (IF \E t \in terms : Contains(lower(r.item.support_category), t)
                                  THEN 8 ELSE 0)
                               + 4 * Cardinality(StatesPriced(r.item))
        /\ call.outcome = "raised" =>
               \E i \in 1..Len(SupportItems) : \E m \in StatesPriced(SupportItems[i]) :
                   ~SupportItems[i].price_limits[call.intent.modifiers[m][2]].mapping

\* a search with a state and a framework modifier returned an item whose
\* table lacks the state, scored on its name alone, and an item whose table
\* has it, scored on its name and the state
PricingScoreWitness ==
    /\ Returned
    /\ \E m, f \in 1..Len(call.intent.modifiers) :
           call.intent.modifiers[m][1] = "state" /\ call.intent.modifiers[f][1] = "framework"
    /\ \E i, j \in 1..Len(call.emitted) :
           LET r == call.emitted[i]
               s == call.emitted[j]
           IN  /\ r.source_type = "pricing" /\ s.source_type = "pricing"
               /\ StatesPriced(r.item) = {} /\ r.relevance_score = 12
               /\ StatesPriced(s.item) # {} /\ s.relevance_score = 28

\* the number of the terms, each counted as often as it occurs, that are
\* substrings of the lower-cased text
TermsFound(terms, text) ==
    LET lowered == lower(text)
    IN  Cardinality({i \in 1..Len(terms) : Contains(lowered, terms[i])})

\* the rule of this name
RuleNamed(name) == ClaimingRules[CHOOSE i \in 1..Len(ClaimingRules) : ClaimingRules[i].name = name].rule

\* C8: every rule result scores 1.5 (6 quarter points) for each query term
\* that is a substring of the rule's stringified content, and every guidance
\* result 1.0 (4) for each query term that is a substring of the section
\* text, case ignored; the sum is multiplied by 1.5 exactly when the focus of
\* the intent is rules (for a rule) or guidance (for a section).
RuleAndGuidanceScore ==
    phase = "searched" /\ call.emitted # << >> =>
        LET terms == QueryTerms
            sections == Sections
        IN  \A i \in 1..Len(call.emitted) :
                LET r == call.emitted[i]
                IN  /\ r.source_type = "rule" =>
                           LET base == 6 * TermsFound(terms, str(RuleNamed(r.rule_name)))
                           IN  r.relevance_score =
                                   IF call.intent.focus = "rules" THEN (base * 3) \div 2 ELSE base
                    /\ r.source_type = "guidance" =>
                           LET base == 4 * TermsFound(terms, sections[r.section_index + 1])
                           IN  r.relevance_score =
                                   IF call.intent.focus = "guidance" THEN (base * 3) \div 2
                                   ELSE base

\* a search whose focus is neither rules nor guidance found a rule with a
\* term that the query has twice in its content, and a section with one
\* query term in its text
RuleAndGuidanceScoreWitness ==
    /\ Returned
    /\ call.intent.focus \notin {"rules", "guidance"}
    /\ \E i, j \in 1..Len(call.emitted) :
           /\ call.emitted[i].source_type = "rule" /\ call.emitted[i].relevance_score = 12
           /\ call.emitted[j].source_type = "guidance" /\ call.emitted[j].relevance_score = 4

\* the rank of a source type in the order search calls the sub-searches
SourceRank(source_type) ==
    CASE source_type = "pricing" -> 1 [] source_type = "rule" -> 2 [] source_type = "guidance" -> 3

\* C9: results of equal score are returned in the order in which the
\* sub-searches emitted them, and the sub-searches emit in the order pricing,
\* rule, guidance, so that of two results of equal score the one of the
\* earlier sub-search comes first.
StableTies ==
    Returned =>
        /\ \A i, j \in 1..Len(call.results) :
               i < j /\ call.results[i].relevance_score = call.results[j].relevance_score
                   => /\ PositionIn(call.emitted, call.results[i])
                             < PositionIn(call.emitted, call.results[j])
                      /\ SourceRank(call.results[i].source_type)
                             <= SourceRank(call.results[j].source_type)
        /\ \A i, j \in 1..Len(call.emitted) :
               i < j => SourceRank(call.emitted[i].source_type)
                            <= SourceRank(call.emitted[j].source_type)

\* a search returned two results of equal score from two sub-searches, the
\* second of them moved ahead of a result that was emitted before it
StableTiesWitness ==
    /\ Returned
    /\ \E i, j, k \in 1..Len(call.results) :
           /\ i < j /\ j < k
           /\ call.results[i].relevance_score = call.results[j].relevance_score
           /\ call.results[i].source_type # call.results[j].source_type
           /\ PositionIn(call.emitted, call.results[k]) < PositionIn(call.emitted, call.results[j])

\* C10: a search made again with the same query and max_results, on this
\* engine or on one built anew from the same data, returns the list that the
\* first search returned, in the same order.
Deterministic ==
    Returned => search(call.query, call.max_results).results = call.results

\* the phrases that name a state, with the state each names
StatePhrases ==
    { <<<<"i","n"," ","n","s","w">>, "NSW">>, <<<<"i","n"," ","n","e","w"," ","s","o","u","t","h"," ","w","a","l","e","s">>, "NSW">>,
      <<<<"i","n"," ","v","i","c">>, "VIC">>, <<<<"i","n"," ","v","i","c","t","o","r","i","a">>, "VIC">> }

\* the phrases that name a framework
FrameworkPhrases == { <<<<"o","l","d"," ","f","r","a","m","e","w","o","r","k">>, "old">>, <<<<"n","e","w"," ","f","r","a","m","e","w","o","r","k">>, "new">> }

\* C11: the modifiers of every classified query hold a state modifier for
\* each state that one of the state phrases in the query names.
StateModifiersAdditive ==
    phase = "searched" =>
        LET q == lower(call.query)
        IN  \A p \in StatePhrases :
                Contains(q, p[1]) =>
                    \E i \in 1..Len(call.intent.modifiers) :
                        call.intent.modifiers[i] = <<"state", p[2]>>

\* the state and framework phrases that occur in the query
PhrasesIn(query) ==
    LET q == lower(query)
    IN  {p \in StatePhrases \cup FrameworkPhrases : Contains(q, p[1])}

\* the queries of the pool, each with its phrases and its intent
IntentTable ==
    {<<PhrasesIn(query), understand_query_intent(query)>> : query \in QueryPool}

\* C12: every query is classified; the modifiers of a query are those of
\* every query with the same state and framework phrases, whatever the types
\* of the two; and a query with none of the phrases of the type rules and no
\* state or framework phrase has type general, no focus and no modifiers.
ModifiersIndependentOfType ==
    phase = "searched" =>
        LET q == lower(call.query)
            phrases == PhrasesIn(call.query)
        IN  /\ call.intent.type \in {"pricing", "claiming", "definition", "both", "general"}
            /\ \A e \in IntentTable :
                   e[1] = phrases => e[2].modifiers = call.intent.modifiers
            /\ (/\ phrases = {}
                /\ ~HasPhrase(q, PricingPhrases \cup ClaimingPhrases
                                     \cup DefinitionPhrases \cup BothPhrases))
               => call.intent = [type |-> "general", focus |-> "None", modifiers |-> << >>]

\* a query of type general with a state phrase was classified, and the pool
\* has a query of another type with the same phrases
ModifiersIndependentOfTypeWitness ==
    /\ phase = "searched"
    /\ call.intent.type = "general"
    /\ call.intent.modifiers # << >>
    /\ \E e \in IntentTable : e[1] = PhrasesIn(call.query) /\ e[2].type = "pricing"

\* the characters the tokenizer's contract lets a token have
TokenChars == Range(LowerLetters) \cup Range(DigitChars) \cup {"-", "/"}

\* C13: every term extracted from the query of a search is lower-case, made
\* of letters, digits, "-" and "/" only, no stop word and at least 3 long;
\* the empty text has no terms.
TermsWellFormed ==
    /\ extract_terms(<< >>) = << >>
    /\ phase = "searched" =>
           LET terms == QueryTerms
           IN  \A i \in 1..Len(terms) :
                   /\ Range(terms[i]) \subseteq TokenChars
                   /\ terms[i] \notin stop_words
                   /\ Len(terms[i]) >= 3

---------------------------------------------------------------------------
(* Properties of the assistant                                             *)

\* what ask returns when it has nothing to answer from
FixedAnswer ==
    /\ reply.outcome = "no_information"
    /\ reply.answer = NoInformation
    /\ reply.sources = << >>
    /\ reply.retrieved_docs = 0
    /\ reply.generation = "not called"

\* C14: a call of ask whose retrieval yields no document, because the corpus
\* is empty and the query was embedded or because top_k is 0 and retrieval
\* did not fail, returns the fixed "couldn't find relevant information"
\* answer with no sources and a retrieved count of 0, and the generation
\* capability is not invoked in the call.
EmptyRetrievalTerminal ==
    reply.op = "ask" =>
        /\ (documents = << >> /\ reply.embedding # "fails") => FixedAnswer
        /\ (reply.top_k = 0 /\ reply.outcome # "raised") => FixedAnswer

\* a question was put to an assistant with an empty corpus, with top_k
\* positive and the embedding capability working
EmptyRetrievalTerminalWitness ==
    /\ reply.op = "ask"
    /\ documents = << >>
    /\ reply.top_k > 0
    /\ reply.embedding = "ok"
    /\ reply.outcome = "no_information"

\* C15: a call of ask that completes generation appends one turn, the query,
\* the answer and the chunk ids of the retrieved documents in retrieval
\* order, at the end of the history and leaves the earlier turns as they
\* were; a call of ask that does not complete generation leaves the history
\* as it was; the history is emptied by clear_history, and a newly
\* constructed assistant starts with an empty one.
HistoryAppendOnly ==
    [][ \/ /\ reply'.op = "ask"
           /\ reply'.generation = "ok"
           /\ conversation_history' =
                  conversation_history \o
                      << [query |-> reply'.query, answer |-> reply'.answer,
                          sources |-> [i \in 1..Len(reply'.sources) |-> reply'.sources[i].chunk_id]] >>
        \/ /\ reply'.op = "ask"
           /\ reply'.generation # "ok"
           /\ conversation_history' = conversation_history
        \/ /\ reply'.op \in {"clear", "construct"}
           /\ conversation_history' = << >> ]_vars

\* a second turn with another query was appended after the first
HistoryAppendOnlyWitness ==
    /\ reply.op = "ask"
    /\ reply.outcome = "answered"
    /\ Len(conversation_history) = 2
    /\ conversation_history[2].query = reply.query
    /\ conversation_history[1].query # reply.query
    /\ Len(conversation_history[2].sources) = 2

\* C16: a call of ask in which the embedding capability fails or answers
\* malformed raises EmbeddingServiceError, and one in which the generation
\* capability fails raises GenerationServiceError; neither returns an answer.
TypedProviderErrors ==
    reply.op = "ask" =>
        /\ reply.embedding \in {"fails", "malformed"} =>
               reply.outcome = "raised" /\ reply.error = "EmbeddingServiceError"
        /\ reply.generation = "fails" =>
               reply.outcome = "raised" /\ reply.error = "GenerationServiceError"

\* C17: the documents an ask retrieved are at most top_k documents of the
\* corpus, each once and each with an embedding, as many as top_k and the
\* corpus allow, in the order of non-increasing similarity to the query, and
\* no document left out is more similar to the query than one returned; an
\* empty corpus gives none.
RetrievalRanked ==
    (reply.op = "ask" /\ reply.outcome \in {"answered", "no_information"}) =>
        LET found == reply.sources
            q == titan_embed(reply.query)
            corpus == Range(documents)
        IN  /\ Len(found) <= reply.top_k
            /\ Len(found) = IF Len(documents) < reply.top_k THEN Len(documents) ELSE reply.top_k
            /\ Range(found) \subseteq corpus
            /\ Cardinality(Range(found)) = Len(found)
            /\ \A i \in 1..Len(found) : found[i].embedding.kind = "vector"
            /\ \A i, j \in 1..Len(found) :
                   i < j => ~cosine_less(q, found[i].embedding.vector, found[j].embedding.vector)
            /\ \A doc \in corpus \ Range(found) : \A i \in 1..Len(found) :
                   ~cosine_less(q, found[i].embedding.vector, doc.embedding.vector)
            /\ documents = << >> => found = << >>

\* two documents were retrieved, the more similar first although it is the
\* later one in the corpus, and a less similar document was left out
RetrievalRankedWitness ==
    /\ reply.op = "ask"
    /\ reply.outcome = "answered"
    /\ Len(reply.sources) = 2
    /\ LET q == titan_embed(reply.query)
       IN  /\ cosine_less(q, reply.sources[2].embedding.vector, reply.sources[1].embedding.vector)
           /\ PositionIn(documents, reply.sources[2]) < PositionIn(documents, reply.sources[1])
           /\ \E doc \in Range(documents) \ Range(reply.sources) :
                  cosine_less(q, doc.embedding.vector, reply.sources[2].embedding.vector)

\* the pricing documents of the corpus
PricingDocuments == SelectSeq(documents, LAMBDA doc : doc.source_type = "pricing")

\* the pricing records that have a non-empty item number
NumberedItems ==
    SelectSeq(SupportItems, LAMBDA item : /\ "support_item_number" \in DOMAIN item
                                          /\ item["support_item_number"] # << >>)

\* C18: the corpus of a constructed assistant has one pricing document for
\* each pricing record with a non-empty item number, in the order of the
\* records, and none for a record whose item number is missing or empty.
NumberlessSkipped ==
    assistant = "ready" =>
        /\ Len(PricingDocuments) = Len(NumberedItems)
        /\ \A i \in 1..Len(NumberedItems) :
               PricingDocuments[i].key = NumberedItems[i]["support_item_number"]

\* C19: no two documents of the corpus of a constructed assistant have the
\* same chunk_id.
ChunkIdsUnique ==
    assistant = "ready" =>
        \A i, j \in 1..Len(documents) : i < j => documents[i].chunk_id # documents[j].chunk_id

\* the number of documents of a source type in the corpus
DocumentsOf(source_type) ==
    Cardinality({i \in 1..Len(documents) : documents[i].source_type = source_type})

\* C20: an assistant constructed in the place of another from the same data
\* has the chunk ids of the one it replaces, in the same order; and the
\* corpus of a constructed assistant has the pricing documents first, one for
\* each record, then the rule documents, one for each rule, then the guidance
\* documents.
IdempotentBuild ==
    (reply.op = "construct" /\ assistant = "ready") =>
        /\ reply.rebuilds => chunk_ids(documents) = reply.previous
        /\ \A i, j \in 1..Len(documents) :
               i < j => SourceRank(documents[i].source_type) <= SourceRank(documents[j].source_type)
        /\ DocumentsOf("pricing") = Len(SupportItems)
        /\ DocumentsOf("rule") = Len(ClaimingRules)

\* an assistant with documents of the three source types was constructed in
\* the place of another
IdempotentBuildWitness ==
    /\ reply.op = "construct"
    /\ assistant = "ready"
    /\ reply.rebuilds
    /\ \A source_type \in {"pricing", "rule", "guidance"} : DocumentsOf(source_type) > 0

---------------------------------------------------------------------------
(* Properties of the results, the indices and the refinements              *)

\* C27: every result a search returns has a relevance score above 0.
PositiveScores ==
    Returned => \A i \in 1..Len(call.results) : call.results[i].relevance_score > 0

\* C28: every pricing result of a search carries an item whose own indexable
\* text has at least one of the query's terms among its terms, and no
\* pricing record is in the pricing results twice.
IndexedItemReturned ==
    Returned =>
        LET terms == Range(QueryTerms)
            pricing == Emitted("pricing")
        IN  /\ \A j \in 1..Len(pricing) :
                   Range(extract_terms(indexable_text(pricing[j].item))) \cap terms # {}
            /\ \A j, k \in 1..Len(pricing) : j < k => pricing[j].item # pricing[k].item

---------------------------------------------------------------------------
(* Properties of the assistant's state                                     *)

\* C29: a call of ask that raises or returns the fixed answer leaves the
\* conversation history, the documents and their embeddings as they were.
FailedAskFrame ==
    [][ (reply'.op = "ask" /\ reply'.outcome # "answered") =>
            /\ conversation_history' = conversation_history
            /\ documents' = documents
            /\ assistant' = assistant ]_vars

\* the generation capability failed in an ask made after an answered one
FailedAskFrameWitness ==
    /\ reply.op = "ask"
    /\ reply.outcome = "raised"
    /\ reply.generation = "fails"
    /\ Len(conversation_history) = 1
    /\ documents # << >>

\* C30: every document of a constructed assistant has an embedding vector,
\* and a construction in which the embedding capability fails gives no
\* assistant.
EmbeddingInvariant ==
    /\ assistant = "ready" =>
           \A i \in 1..Len(documents) : documents[i].embedding.kind = "vector"
    /\ (reply.op = "construct" /\ reply.embedding = "fails") => assistant = "failed"

\* C21: a construction in which the embedding capability does not fail gives
\* an assistant, with a pricing document for every record whose price
\* entries are mappings.
MalformedRecordSkipped ==
    (reply.op = "construct" /\ reply.embedding # "fails") =>
        /\ assistant = "ready"
        /\ \A i \in 1..Len(SupportItems) :
               ~create_pricing_document_raises(SupportItems[i]) =>
                   \E j \in 1..Len(documents) :
                       /\ documents[j].source_type = "pricing"
                       /\ documents[j].content = SupportItems[i]["support_item_name"]

\* C22: when suggest_refinements is given no results, it has a "Did you
\* mean" hint if and only if a term of the pricing index has the first 3
\* characters of a term of the query as its first 3 characters, and the hint
\* lists 1 to 3 such terms.
SimilarTermsHint ==
    (refinement.op = "suggest" /\ refinement.n_results = 0) =>
        LET terms == Range(extract_terms(refinement.query))
            sharing == {pricing_index[i].term : i \in
                           {k \in 1..Len(pricing_index) :
                                \E t \in terms : Prefix(pricing_index[k].term, 3) = Prefix(t, 3)}}
            hints == {i \in 1..Len(refinement.suggestions) :
                          Prefix(refinement.suggestions[i], 14) = <<"D","i","d"," ","y","o","u"," ","m","e","a","n",":"," ">>}
        IN  /\ hints # {} <=> sharing # {}
            /\ \A i \in hints : \E n \in 1..3 : \E listed \in [1..n -> sharing] :
                   refinement.suggestions[i] = <<"D","i","d"," ","y","o","u"," ","m","e","a","n",":"," ">> \o join(listed) \o <<"?">>

\* C23: the suggestions of suggest_refinements have the "add your state"
\* suggestion if and only if the intent classifier finds no state modifier
\* in the query.
AddStateWhenNoState ==
    refinement.op = "suggest" =>
        LET modifiers == understand_query_intent(refinement.query).modifiers
        IN  AddStateSuggestion \in Range(refinement.suggestions)
                <=> ~\E i \in 1..Len(modifiers) : modifiers[i][1] = "state"

\* C26: for every term, of a document, of an index or of a query, the keys
\* that the lookup of the term gives are: in the pricing index the numbers of
\* the items with the term among the terms of name, category and
\* registration group; in the rule index the names of the rules with the
\* term among the terms of the name; in the guidance index the numbers of the
\* non-blank sections with the term among the terms of their first 200
\* characters. A term in no index gives no keys.
IndexExact ==
    LET sections == Sections
        probes == UNION {Range(extract_terms(query)) : query \in RefineQueryPool}
                  \cup {pricing_index[i].term : i \in 1..Len(pricing_index)}
                  \cup {rule_index[i].term : i \in 1..Len(rule_index)}
                  \cup {guidance_index[i].term : i \in 1..Len(guidance_index)}
                  \cup UNION {Range(extract_terms(sections[n])) : n \in 1..Len(sections)}
    IN  \A t \in probes :
            /\ candidates(pricing_index, <<t>>) =
                   {get(SupportItems[i], "support_item_number", << >>) : i \in
                        {k \in 1..Len(SupportItems) :
                             t \in Range(extract_terms(indexable_text(SupportItems[k])))}}
            /\ candidates(rule_index, <<t>>) =
                   {ClaimingRules[i].name : i \in
                        {k \in 1..Len(ClaimingRules) : t \in Range(extract_terms(ClaimingRules[k].name))}}
            /\ candidates(guidance_index, <<t>>) =
                   {n \in 0..(Len(sections) - 1) :
                        /\ has_non_space(sections[n + 1])
                        /\ t \in Range(extract_terms(Prefix(sections[n + 1], 200)))}
            /\ (\A i \in 1..Len(pricing_index) : pricing_index[i].term # t)
                   => candidates(pricing_index, <<t>>) = {}

\* the engine has a pricing index and a guidance section with the term
\* "meals" after its first 200 characters only, and "meals" was looked up
IndexExactWitness ==
    /\ pricing_index # << >>
    /\ refinement.op = "suggest"
    /\ <<"m","e","a","l","s">> \in Range(extract_terms(refinement.query))
    /\ \E n \in 1..Len(Sections) :
           /\ Len(Sections[n]) > 200
           /\ <<"m","e","a","l","s">> \in Range(extract_terms(Sections[n]))
           /\ <<"m","e","a","l","s">> \notin Range(extract_terms(Prefix(Sections[n], 200)))
    /\ guidance_index # << >>
    /\ candidates(guidance_index, <<<<"m","e","a","l","s">>>>) = {}

\* C25: whatever the order in which the steps of concurrent calls of ask are
\* taken, the history holds one whole turn, the query, the answer and the
\* chunk ids of the sources of one call, for each call that has recorded its
\* answer, and nothing else.
ConcurrentHistoryWhole ==
    threads # << >> =>
        LET recorded == {t \in 1..Len(threads) :
                             threads[t].pc = "done" /\ threads[t].reply.outcome = "answered"}
        IN  /\ Len(conversation_history) = Cardinality(recorded)
            /\ \E turn \in [recorded -> 1..Len(conversation_history)] :
                   /\ \A t, u \in recorded : t # u => turn[t] # turn[u]
                   /\ \A t \in recorded :
                          conversation_history[turn[t]] =
                              [query |-> threads[t].reply.query,
                               answer |-> threads[t].reply.answer,
                               sources |-> [i \in 1..Len(threads[t].reply.sources) |->
                                                threads[t].reply.sources[i].chunk_id]]

\* two calls with different queries have both recorded their answers, the
\* second thread first
ConcurrentHistoryWholeWitness ==
    /\ Len(threads) >= 2
    /\ \A t \in 1..2 : threads[t].pc = "done" /\ threads[t].reply.outcome = "answered"
    /\ threads[1].reply.query # threads[2].reply.query
    /\ Len(conversation_history) >= 2
    /\ conversation_history[1].query = threads[2].reply.query
    /\ conversation_history[2].query = threads[1].reply.query

====
